---- MODULE Spec2Model ----
(***************************************************************************)
(* Model of the Tasks API of src/app.py: the in-memory list `tasks` and    *)
(* the five request handlers get_tasks, get_task, create_task, update_task *)
(* and delete_task.                                                        *)
(*                                                                         *)
(* Strings are sequences of one-character strings.  A JSON value is a      *)
(* tagged record: [t |-> "none"] (None: JSON null or a body that did not   *)
(* parse, request.get_json(silent=True)), [t |-> "bool", b |-> ...],       *)
(* [t |-> "int", n |-> ...], [t |-> "str", s |-> ...],                     *)
(* [t |-> "list", l |-> ...] and [t |-> "dict", d |-> ...] where d is a    *)
(* function from the keys present to JSON values.                          *)
(***************************************************************************)
EXTENDS Integers, Sequences, FiniteSets, TLC

VARIABLES
    tasks,      \* the global list `tasks` (app.py:40), a sequence of task records
    before,     \* the value of `tasks` when the last request was dispatched
    req,        \* the request being served (sequential dispatch), or NoRequest
    resp,       \* the response the handler returned for req
    th          \* concurrent dispatch: the handler frame of every worker thread

vars == <<tasks, before, req, resp, th>>

-----------------------------------------------------------------------------
(* Bounds of the model *)

\* longest string drawn for a title in a request body
MaxLen == 2
\* a create is dispatched only while the id it would assign is at most MaxId
MaxId == 3

-----------------------------------------------------------------------------
(* Strings *)

\* the characters request strings are drawn from; " " is the whitespace one
Chars == {" ", "a"}

Strs == UNION {[1..n -> Chars] : n \in 0..MaxLen}

isspace(c) == c = " "

RECURSIVE lstrip(_)
lstrip(s) == IF s # <<>> /\ isspace(Head(s)) THEN lstrip(Tail(s)) ELSE s

RECURSIVE rstrip(_)
rstrip(s) == IF s # <<>> /\ isspace(s[Len(s)])
             THEN rstrip(SubSeq(s, 1, Len(s) - 1)) ELSE s

\* str.strip(): removes leading and trailing whitespace
strip(s) == rstrip(lstrip(s))

\* `sub in s` for two Python strings: substring test
IsSubstring(sub, s) ==
    \E i \in 0..(Len(s) - Len(sub)) : SubSeq(s, i + 1, i + Len(sub)) = sub

-----------------------------------------------------------------------------
(* JSON values delivered by request.get_json(silent=True) *)

None == [t |-> "none"]
JBool(b) == [t |-> "bool", b |-> b]
JInt(n) == [t |-> "int", n |-> n]
JStr(s) == [t |-> "str", s |-> s]
JList(l) == [t |-> "list", l |-> l]
JDict(d) == [t |-> "dict", d |-> d]

EmptyDict == JDict(<<>>)

\* the two keys the handlers look up, as Python strings
KeyChars(k) == IF k = "title" THEN <<"t", "i", "t", "l", "e">>
               ELSE <<"d", "o", "n", "e">>

\* Python truth value of a JSON value, as used by `request.get_json(...) or {}`
Truthy(v) ==
    CASE v.t = "none" -> FALSE
      [] v.t = "bool" -> v.b
      [] v.t = "int"  -> v.n # 0
      [] v.t = "str"  -> v.s # <<>>
      [] v.t = "list" -> v.l # <<>>
      [] v.t = "dict" -> DOMAIN v.d # {}

\* data = request.get_json(silent=True) or {}
ParsedData(rq) == IF Truthy(rq.json) THEN rq.json ELSE EmptyDict

\* `k in data` raises TypeError when data is a number or a boolean
InRaises(data) == data.t \in {"int", "bool"}

\* `k in data` for a dict (key test), a list (element test), a str (substring)
Contains(k, data) ==
    CASE data.t = "dict" -> k \in DOMAIN data.d
      [] data.t = "list" -> \E i \in 1..Len(data.l) : data.l[i] = JStr(KeyChars(k))
      [] data.t = "str"  -> IsSubstring(KeyChars(k), data.s)

\* data[k] with a str key raises TypeError unless data is a dict
SubscriptRaises(data) == data.t # "dict"

isinstance_str(v) == v.t = "str"
isinstance_bool(v) == v.t = "bool"

-----------------------------------------------------------------------------
(* Responses: (jsonify(body), status) *)

TaskBody(task) == [kind |-> "task", task |-> task]
TasksBody(ts) == [kind |-> "tasks", tasks |-> ts]
ErrorBody == [kind |-> "error"]
MessageBody == [kind |-> "message"]
\* an exception escaping the handler: Flask answers 500
ExceptionBody == [kind |-> "exception"]

Result(ts, status, body) == [tasks |-> ts, status |-> status, body |-> body]

Raise(ts) == Result(ts, 500, ExceptionBody)

-----------------------------------------------------------------------------
(* The store and the handlers, as functions of the store and the request *)

SeedTasks ==
    << [id |-> 1, done |-> FALSE,
        title |-> <<"K","u","p","i","t","'"," ","m","o","l","o","k","o">>],
       [id |-> 2, done |-> TRUE,
        title |-> <<"V","y","u","c","h","i","t","'"," ","P","y","t","h","o","n">>] >>

Ids(ts) == {ts[i].id : i \in 1..Len(ts)}

SetMax(S) == CHOOSE m \in S : \A x \in S : x <= m

\* mutants of generate_id: the length of the list instead of the largest id;
\* no "+ 1" for the empty list
generate_id_len(ts) == Len(ts) + 1

generate_id_empty(ts) == IF ts # <<>> THEN SetMax(Ids(ts)) + 1 ELSE 0

generate_id(ts) == IF ts # <<>> THEN SetMax(Ids(ts)) + 1 ELSE 1

\* next((t for t in tasks if t['id'] == task_id), None): index of the first
\* task with that id, 0 for None
FindTask(ts, task_id) ==
    IF \E i \in 1..Len(ts) : ts[i].id = task_id
    THEN CHOOSE i \in 1..Len(ts) :
            /\ ts[i].id = task_id
            /\ \A j \in 1..(i - 1) : ts[j].id # task_id
    ELSE 0

\* the list in reverse order
Reversed(ts) == [i \in 1..Len(ts) |-> ts[Len(ts) + 1 - i]]

\* mutant of get_tasks: the list is reversed in place before it is returned
get_tasks_reverse(ts) == Result(Reversed(ts), 200, TasksBody(Reversed(ts)))

get_tasks(ts) == Result(ts, 200, TasksBody(ts))

\* mutant of get_task: the task at position task_id instead of the one with
\* that id
get_task_position(ts, task_id) ==
    IF task_id \in 1..Len(ts) THEN Result(ts, 200, TaskBody(ts[task_id]))
    ELSE Result(ts, 404, ErrorBody)

get_task(ts, task_id) ==
    LET i == FindTask(ts, task_id) IN
    IF i = 0 THEN Result(ts, 404, ErrorBody)
    ELSE Result(ts, 200, TaskBody(ts[i]))

\* mutant of CreateValidation: no check that the stripped title is non-empty
CreateValidation_noblank(data) ==
    IF InRaises(data) THEN "raise"
    ELSE IF ~Contains("title", data) THEN "invalid"
    ELSE IF SubscriptRaises(data) THEN "raise"
    ELSE IF ~isinstance_str(data.d["title"]) THEN "invalid"
    ELSE "ok"

\* the validation of create_task (app.py:152): "ok", "invalid" (400) or "raise"
CreateValidation(data) ==
    IF InRaises(data) THEN "raise"
    ELSE IF ~Contains("title", data) THEN "invalid"
    ELSE IF SubscriptRaises(data) THEN "raise"
    ELSE IF ~isinstance_str(data.d["title"]) THEN "invalid"
    ELSE IF strip(data.d["title"].s) = <<>> THEN "invalid"
    ELSE "ok"

\* mutant of NewTask: the title is stored as sent
NewTask_untrimmed(ts, data) ==
    [id |-> generate_id(ts), title |-> data.d["title"].s, done |-> FALSE]

NewTask(ts, data) ==
    [id |-> generate_id(ts), title |-> strip(data.d["title"].s), done |-> FALSE]

\* mutants of create_task: no check of request.is_json; the new task is
\* inserted at the front of the list
create_task_nojsoncheck(ts, rq) ==
    LET data == ParsedData(rq)
        v == CreateValidation(data)
    IN  IF v = "raise" THEN Raise(ts)
        ELSE IF v = "invalid" THEN Result(ts, 400, ErrorBody)
        ELSE Result(Append(ts, NewTask(ts, data)), 201,
                    TaskBody(NewTask(ts, data)))

create_task_prepend(ts, rq) ==
    IF ~rq.is_json THEN Result(ts, 415, ErrorBody)
    ELSE LET data == ParsedData(rq)
             v == CreateValidation(data)
         IN  IF v = "raise" THEN Raise(ts)
             ELSE IF v = "invalid" THEN Result(ts, 400, ErrorBody)
             ELSE Result(<<NewTask(ts, data)>> \o ts, 201,
                         TaskBody(NewTask(ts, data)))

create_task(ts, rq) ==
    IF ~rq.is_json THEN Result(ts, 415, ErrorBody)
    ELSE LET data == ParsedData(rq)
             v == CreateValidation(data)
         IN  IF v = "raise" THEN Raise(ts)
             ELSE IF v = "invalid" THEN Result(ts, 400, ErrorBody)
             ELSE Result(Append(ts, NewTask(ts, data)), 201,
                         TaskBody(NewTask(ts, data)))

\* mutant of TitleSupplied: no check that the stripped title is non-empty
TitleSupplied_noblank(data) ==
    /\ Contains("title", data)
    /\ isinstance_str(data.d["title"])

\* app.py:213
TitleSupplied(data) ==
    /\ Contains("title", data)
    /\ isinstance_str(data.d["title"])
    /\ strip(data.d["title"].s) # <<>>

\* app.py:216
DoneSupplied(data) ==
    /\ Contains("done", data)
    /\ isinstance_bool(data.d["done"])

\* app.py:213-217 raise TypeError before any assignment when data is no dict
UpdateRaises(data) ==
    \/ InRaises(data)
    \/ (Contains("title", data) /\ SubscriptRaises(data))
    \/ (Contains("done", data) /\ SubscriptRaises(data))

\* mutant of UpdatedTask: the id of the body is taken over as well
UpdatedTask_merge(task, data) ==
    LET t1 == IF TitleSupplied(data)
              THEN [task EXCEPT !.title = strip(data.d["title"].s)] ELSE task
        t2 == IF DoneSupplied(data) THEN [t1 EXCEPT !.done = data.d["done"].b] ELSE t1
    IN  IF Contains("id", data) /\ data.d["id"].t = "int"
        THEN [t2 EXCEPT !.id = data.d["id"].n] ELSE t2

UpdatedTask(task, data) ==
    LET t1 == IF TitleSupplied(data)
              THEN [task EXCEPT !.title = strip(data.d["title"].s)] ELSE task
    IN  IF DoneSupplied(data) THEN [t1 EXCEPT !.done = data.d["done"].b] ELSE t1

\* mutants of update_task: an invalid title is rejected with 400 as in
\* create_task; the check of request.is_json comes before the lookup
update_task_strict(ts, task_id, rq) ==
    LET i == FindTask(ts, task_id) IN
    IF i = 0 THEN Result(ts, 404, ErrorBody)
    ELSE IF ~rq.is_json THEN Result(ts, 415, ErrorBody)
    ELSE LET data == ParsedData(rq) IN
         IF UpdateRaises(data) THEN Raise(ts)
         ELSE IF Contains("title", data) /\ ~TitleSupplied(data)
         THEN Result(ts, 400, ErrorBody)
         ELSE Result([ts EXCEPT ![i] = UpdatedTask(ts[i], data)], 200,
                     TaskBody(UpdatedTask(ts[i], data)))

update_task_jsonfirst(ts, task_id, rq) ==
    LET i == FindTask(ts, task_id) IN
    IF ~rq.is_json THEN Result(ts, 415, ErrorBody)
    ELSE IF i = 0 THEN Result(ts, 404, ErrorBody)
    ELSE LET data == ParsedData(rq) IN
         IF UpdateRaises(data) THEN Raise(ts)
         ELSE Result([ts EXCEPT ![i] = UpdatedTask(ts[i], data)], 200,
                     TaskBody(UpdatedTask(ts[i], data)))

update_task(ts, task_id, rq) ==
    LET i == FindTask(ts, task_id) IN
    IF i = 0 THEN Result(ts, 404, ErrorBody)
    ELSE IF ~rq.is_json THEN Result(ts, 415, ErrorBody)
    ELSE LET data == ParsedData(rq) IN
         IF UpdateRaises(data) THEN Raise(ts)
         ELSE Result([ts EXCEPT ![i] = UpdatedTask(ts[i], data)], 200,
                     TaskBody(UpdatedTask(ts[i], data)))

\* mutant of Without: the task at position task_id is removed
Without_index(ts, task_id) ==
    IF task_id \in 1..Len(ts)
    THEN SubSeq(ts, 1, task_id - 1) \o SubSeq(ts, task_id + 1, Len(ts))
    ELSE ts

\* [t for t in tasks if t['id'] != task_id]
Without(ts, task_id) == SelectSeq(ts, LAMBDA t : t.id # task_id)

delete_task(ts, task_id) ==
    LET filtered == Without(ts, task_id) IN
    IF Len(filtered) = Len(ts) THEN Result(filtered, 404, ErrorBody)
    ELSE Result(filtered, 200, MessageBody)

-----------------------------------------------------------------------------
(* Request inputs *)

\* path parameter <int:task_id>; 0 is never the id of a task
TaskIds == 0..MaxId

TitleValues == {JStr(s) : s \in Strs} \cup {JInt(123)}
DoneValues == {JBool(TRUE), JBool(FALSE), JInt(1)}

FieldValues(k) == IF k = "title" THEN TitleValues ELSE DoneValues

\* JSON objects with any of the keys title and done
Dicts ==
    UNION { {d \in [K -> TitleValues \cup DoneValues] :
                \A k \in K : d[k] \in FieldValues(k)} :
            K \in SUBSET {"title", "done"} }

\* d with the key "id" added
WithId(d) ==
    [k \in DOMAIN d \cup {"id"} |-> IF k = "id" THEN JInt(9) ELSE d[k]]

\* JSON objects that carry an id next to a valid title, a valid done, both
\* or neither
DictsWithId ==
    { WithId(d) : d \in {e \in Dicts :
        \A k \in DOMAIN e : e[k] \in {JStr(<<"a">>), JBool(TRUE)}} }

\* bodies that are no JSON object: unparsable or null, arrays, strings,
\* numbers, booleans
NonDicts ==
    { None, JList(<<>>), JList(<<JStr(KeyChars("title"))>>),
      JList(<<JStr(KeyChars("done"))>>), JList(<<JInt(1)>>),
      JStr(KeyChars("title")), JStr(<<"a">>), JInt(5), JInt(0), JBool(TRUE) }

\* (request.is_json, request.get_json(silent=True)); the body of a request
\* that is not JSON is never read
Bodies ==
    {[is_json |-> FALSE, json |-> None]} \cup
    {[is_json |-> TRUE, json |-> j] :
        j \in {JDict(d) : d \in Dicts \cup DictsWithId} \cup NonDicts}

-----------------------------------------------------------------------------
(* Sequential dispatch: one request runs to completion before the next *)

NoRequest == [op |-> "none"]
NoResponse == [status |-> 0, body |-> ErrorBody]
NoThreads == <<>>

Init ==
    /\ tasks = SeedTasks
    /\ before = SeedTasks
    /\ req = NoRequest
    /\ resp = NoResponse
    /\ th = NoThreads

\* the handler for rq runs to completion on the store and returns r
Dispatch(rq, r) ==
    /\ tasks' = r.tasks
    /\ before' = tasks
    /\ req' = rq
    /\ resp' = [status |-> r.status, body |-> r.body]
    /\ UNCHANGED th

Idle == req = NoRequest

\* the request being served is one for this handler
Served(op) == req.op = op

GetTasks == Idle /\ Dispatch([op |-> "get_tasks"], get_tasks(tasks))

GetTask ==
    /\ Idle
    /\ \E task_id \in TaskIds :
        Dispatch([op |-> "get_task", task_id |-> task_id], get_task(tasks, task_id))

CreateTask ==
    /\ Idle
    /\ \E b \in Bodies :
        LET rq == [op |-> "create_task", is_json |-> b.is_json, json |-> b.json]
            r == create_task(tasks, rq)
        IN  /\ r.status = 201 => generate_id(tasks) <= MaxId
            /\ Dispatch(rq, r)

UpdateTask ==
    /\ Idle
    /\ \E task_id \in TaskIds, b \in Bodies :
        LET rq == [op |-> "update_task", task_id |-> task_id,
                   is_json |-> b.is_json, json |-> b.json]
        IN  Dispatch(rq, update_task(tasks, task_id, rq))

DeleteTask ==
    /\ Idle
    /\ \E task_id \in TaskIds :
        Dispatch([op |-> "delete_task", task_id |-> task_id],
                 delete_task(tasks, task_id))

\* the response of a create that answered 201 is sent and the next request
\* is a get of the id it returned; req remembers the task the create returned
GetCreatedTask ==
    /\ Served("create_task")
    /\ resp.status = 201
    /\ Dispatch([op |-> "get_task", task_id |-> resp.body.task.id,
                 created |-> resp.body.task],
                get_task(tasks, resp.body.task.id))

\* the response of a list is sent and the next request is a list again; req
\* remembers the sequence the first list returned
GetTasksAgain ==
    /\ Served("get_tasks")
    /\ Dispatch([op |-> "get_tasks", listed |-> resp.body.tasks], get_tasks(tasks))

\* the response is sent and the request context is dropped
Respond ==
    /\ ~Idle
    /\ req' = NoRequest
    /\ resp' = NoResponse
    /\ before' = tasks
    /\ UNCHANGED <<tasks, th>>

Next ==
    \/ GetTasks
    \/ GetTask
    \/ CreateTask
    \/ UpdateTask
    \/ DeleteTask
    \/ GetCreatedTask
    \/ GetTasksAgain
    \/ Respond

Spec == Init /\ [][Next]_vars

-----------------------------------------------------------------------------
(* Concurrent dispatch: the development server serves every request on its *)
(* own thread (app.run, app.py:260).  Each thread serves one create_task   *)
(* or delete_task request; a step is one read or one write of the global   *)
(* `tasks`, which is where the interpreter can switch threads.             *)

\* number of worker threads
NThreads == 2

Threads == 1..NThreads

NoTask == [id |-> 0, done |-> FALSE, title |-> <<>>]

IdleFrame ==
    [pc |-> "idle", op |-> "none", task_id |-> 0, title |-> <<>>,
     new_task |-> NoTask, initial_length |-> 0, filtered |-> <<>>, status |-> 0,
     removed |-> {}]

\* request bodies of the concurrent creates: objects with at most a title,
\* and the bodies that are no object
ConcBodies ==
    {b \in Bodies : b.json.t = "dict" => DOMAIN b.json.d \subseteq {"title"}}

InitConc ==
    /\ tasks = SeedTasks
    /\ before = SeedTasks
    /\ req = NoRequest
    /\ resp = NoResponse
    /\ th = [t \in Threads |-> IdleFrame]

Frame(t, f) ==
    /\ th' = [th EXCEPT ![t] = f]
    /\ UNCHANGED <<before, req, resp>>

\* create_task, app.py:145-153: the checks of the request, no access to `tasks`
CreateBegin(t) ==
    /\ th[t].pc = "idle"
    /\ \E b \in ConcBodies :
        LET data == ParsedData(b)
            v == IF ~b.is_json THEN "unsupported" ELSE CreateValidation(data)
        IN  IF v = "ok"
            THEN Frame(t, [th[t] EXCEPT !.pc = "generate_id", !.op = "create_task",
                                        !.title = strip(data.d["title"].s)])
            ELSE Frame(t, [th[t] EXCEPT !.pc = "done", !.op = "create_task",
                              !.status = IF v = "unsupported" THEN 415
                                         ELSE IF v = "invalid" THEN 400 ELSE 500])
    /\ UNCHANGED tasks

\* app.py:156-160: new_task is built, generate_id() reads `tasks`
CreateGenerateId(t) ==
    /\ th[t].pc = "generate_id"
    /\ Frame(t, [th[t] EXCEPT !.pc = "append",
                    !.new_task = [id |-> generate_id(tasks), title |-> th[t].title,
                                  done |-> FALSE]])
    /\ UNCHANGED tasks

\* app.py:161-163: tasks.append(new_task); return 201
CreateAppend(t) ==
    /\ th[t].pc = "append"
    /\ tasks' = Append(tasks, th[t].new_task)
    /\ Frame(t, [th[t] EXCEPT !.pc = "done", !.status = 201])

\* delete_task, app.py:243: initial_length = len(tasks)
DeleteBegin(t) ==
    /\ th[t].pc = "idle"
    /\ \E task_id \in TaskIds :
        Frame(t, [th[t] EXCEPT !.pc = "filter", !.op = "delete_task",
                               !.task_id = task_id, !.initial_length = Len(tasks)])
    /\ UNCHANGED tasks

\* app.py:244, right-hand side: the list comprehension reads `tasks`
DeleteFilter(t) ==
    /\ th[t].pc = "filter"
    /\ Frame(t, [th[t] EXCEPT !.pc = "assign",
                              !.filtered = Without(tasks, th[t].task_id)])
    /\ UNCHANGED tasks

\* the tasks of the list ts that the list kept does not hold
Dropped(ts, kept) ==
    {ts[i] : i \in 1..Len(ts)} \ {kept[i] : i \in 1..Len(kept)}

\* app.py:244, the assignment to the global; removed is history: the tasks
\* that were in the store and are not in it after the assignment
DeleteAssign(t) ==
    /\ th[t].pc = "assign"
    /\ tasks' = th[t].filtered
    /\ Frame(t, [th[t] EXCEPT !.pc = "compare",
                              !.removed = Dropped(tasks, th[t].filtered)])

\* app.py:246-249: len(tasks) is read again
DeleteCompare(t) ==
    /\ th[t].pc = "compare"
    /\ Frame(t, [th[t] EXCEPT !.pc = "done",
                    !.status = IF Len(tasks) = th[t].initial_length THEN 404 ELSE 200])
    /\ UNCHANGED tasks

NextConc ==
    \E t \in Threads :
        \/ CreateBegin(t)
        \/ CreateGenerateId(t)
        \/ CreateAppend(t)
        \/ DeleteBegin(t)
        \/ DeleteFilter(t)
        \/ DeleteAssign(t)
        \/ DeleteCompare(t)

SpecConc == InitConc /\ [][NextConc]_vars

-----------------------------------------------------------------------------
(* Vocabulary of the properties.  In the sequential specification a state  *)
(* with req # NoRequest is the state right after the handler of req ran:   *)
(* `before` is the store it found, `tasks` the store it left and resp its  *)
(* response.                                                               *)

UniqueIds(ts) == \A i, j \in 1..Len(ts) : i # j => ts[i].id # ts[j].id

\* the position of the task with this id in a store that has one
IndexOf(ts, id) == CHOOSE i \in 1..Len(ts) : ts[i].id = id

NotBlank(s) == \E i \in 1..Len(s) : s[i] # " "

\* r is t without its leading and trailing whitespace
IsTrimOf(r, t) ==
    /\ r # <<>>
    /\ r[1] # " "
    /\ r[Len(r)] # " "
    /\ \E i \in 0..(Len(t) - Len(r)) :
        /\ SubSeq(t, i + 1, i + Len(r)) = r
        /\ \A j \in 1..i : t[j] = " "
        /\ \A j \in (i + Len(r) + 1)..Len(t) : t[j] = " "

\* the request body is a JSON object (request.is_json holds)
ObjectBody == req.is_json /\ req.json.t = "dict"

\* the request body did not parse (or is null): no object could be read
UnparsedBody == req.is_json /\ req.json.t = "none"

HasField(k) == ObjectBody /\ k \in DOMAIN req.json.d

\* the body is an object whose title is a string that is not blank
ValidTitle ==
    /\ HasField("title")
    /\ req.json.d["title"].t = "str"
    /\ NotBlank(req.json.d["title"].s)

\* the body is an object whose done is a boolean
ValidDone == HasField("done") /\ req.json.d["done"].t = "bool"

\* the characters of the seed titles
SeedChars ==
    UNION { {SeedTasks[i].title[j] : j \in 1..Len(SeedTasks[i].title)} :
            i \in 1..Len(SeedTasks) }

\* C1: in every state reached by list, get, create, update and delete
\* requests served one at a time from the seed store, the ids of the stored
\* tasks are pairwise distinct.
C1_UniqueIds == UniqueIds(tasks)

\* a create was served on the store left by deleting the first seed task:
\* the store holds two tasks again, with ids 2 and 3
C1_Witness ==
    /\ Served("create_task")
    /\ resp.status = 201
    /\ Len(tasks) = 2
    /\ tasks[1].id = 2
    /\ tasks[2].id = 3

\* C3: the title of every stored task is a string with at least one
\* character that is not whitespace.
C3_TitlesNotBlank ==
    \A i \in 1..Len(tasks) :
        /\ tasks[i].title \in Seq(Chars \cup SeedChars)
        /\ NotBlank(tasks[i].title)

\* an update whose title is a whitespace-only string was served for a task
\* of the store
C3_Witness ==
    /\ Served("update_task")
    /\ req.task_id \in Ids(before)
    /\ HasField("title")
    /\ req.json.d["title"].t = "str"
    /\ req.json.d["title"].s # <<>>
    /\ ~NotBlank(req.json.d["title"].s)

\* C4: a create whose body is an object with a valid title t answers 201
\* with the task (id, trim(t), false), where id is 1 for an empty store and
\* the largest stored id plus one otherwise; the store is the old store with
\* that task appended.
C4_CreateValid ==
    (Served("create_task") /\ ValidTitle) =>
        /\ resp.status = 201
        /\ resp.body.kind = "task"
        /\ IsTrimOf(resp.body.task.title, req.json.d["title"].s)
        /\ resp.body.task.done = FALSE
        /\ before = <<>> => resp.body.task.id = 1
        /\ before # <<>> =>
              /\ resp.body.task.id - 1 \in Ids(before)
              /\ \A x \in Ids(before) : x < resp.body.task.id
        /\ Len(tasks) = Len(before) + 1
        /\ tasks[Len(tasks)] = resp.body.task
        /\ \A i \in 1..Len(before) : tasks[i] = before[i]

\* a create with a title that has surrounding whitespace was served on a
\* non-empty store
C4_Witness ==
    /\ Served("create_task")
    /\ ValidTitle
    /\ req.json.d["title"].s[1] = " "
    /\ before # <<>>
    /\ resp.status = 201

\* C5: a create whose body is an object without a title, or with a title
\* that is no string, is empty or is whitespace-only (or whose body did not
\* parse), answers 400 and leaves the store as it was.
C5_CreateInvalid ==
    (Served("create_task") /\ (ObjectBody \/ UnparsedBody) /\ ~ValidTitle) =>
        /\ resp.status = 400
        /\ resp.body.kind = "error"
        /\ tasks = before

\* a create with a whitespace-only title was served
C5_Witness ==
    /\ Served("create_task")
    /\ HasField("title")
    /\ req.json.d["title"].t = "str"
    /\ req.json.d["title"].s # <<>>
    /\ ~NotBlank(req.json.d["title"].s)
    /\ resp.status = 400

\* C2: under concurrent dispatch, in every interleaving of the steps of
\* the threads the ids of the stored tasks are pairwise distinct, and two
\* creates that both answered 201 assigned different ids.
C2_ConcurrentCreatesDistinct ==
    /\ UniqueIds(tasks)
    /\ \A t1, t2 \in Threads :
        (/\ t1 # t2
         /\ th[t1].op = "create_task" /\ th[t1].status = 201
         /\ th[t2].op = "create_task" /\ th[t2].status = 201)
        => th[t1].new_task.id # th[t2].new_task.id

\* C6: an update of an existing id leaves the length of the store, the id
\* and position of the task and every other task as they were; done changes
\* only if the body supplies a boolean done, title only if it supplies a
\* valid title.
C6_UpdateFrame ==
    (Served("update_task") /\ req.task_id \in Ids(before)) =>
        LET i == IndexOf(before, req.task_id) IN
        /\ Len(tasks) = Len(before)
        /\ tasks[i].id = before[i].id
        /\ \A j \in 1..Len(before) : j # i => tasks[j] = before[j]
        /\ ~ValidDone => tasks[i].done = before[i].done
        /\ ~ValidTitle => tasks[i].title = before[i].title

\* an update whose body carries an id and a valid title but no done was
\* served for a task that is done, and changed its title
C6_Witness ==
    /\ Served("update_task")
    /\ req.task_id \in Ids(before)
    /\ ValidTitle
    /\ HasField("id")
    /\ ~HasField("done")
    /\ before[IndexOf(before, req.task_id)].done
    /\ tasks[IndexOf(before, req.task_id)].title
          # before[IndexOf(before, req.task_id)].title

C8_NotFound ==
    (/\ Served("get_task") \/ Served("update_task") \/ Served("delete_task")
     /\ req.task_id \notin Ids(before))
    => /\ resp.status = 404
       /\ resp.body.kind = "error"
       /\ tasks = before

\* an update that is not JSON was served for an id that is not stored
C8_Witness ==
    /\ Served("update_task")
    /\ req.task_id \notin Ids(before)
    /\ ~req.is_json
    /\ resp.status = 404

\* C9: a delete of a stored id answers 200 and leaves the store without
\* exactly that task, the others in their order; an id enters the store
\* only as the id a create that answered 201 assigned; a get of an id that
\* is not stored answers 404.  Hence after delete(id) every get(id)
\* answers 404 until a create assigns id again.
C9_DeleteThenNotFound ==
    /\ (Served("delete_task") /\ req.task_id \in Ids(before)) =>
          LET k == IndexOf(before, req.task_id) IN
          /\ resp.status = 200
          /\ req.task_id \notin Ids(tasks)
          /\ tasks = SubSeq(before, 1, k - 1) \o SubSeq(before, k + 1, Len(before))
    /\ (Served("delete_task") /\ resp.status = 200) => req.task_id \in Ids(before)
    /\ \A id \in Ids(tasks) \ Ids(before) :
          /\ Served("create_task")
          /\ resp.status = 201
          /\ resp.body.task.id = id
    /\ (Served("get_task") /\ req.task_id \notin Ids(tasks)) => resp.status = 404

\* a get of the id of a seed task answered 404: the seed tasks are in the
\* store from the start, so a delete of that id was served before
C9_Witness ==
    /\ Served("get_task")
    /\ req.task_id \in Ids(SeedTasks)
    /\ resp.status = 404

C11_GetAfterCreate ==
    (Served("get_task") /\ "created" \in DOMAIN req) =>
        /\ req.task_id = req.created.id
        /\ resp.status = 200
        /\ resp.body = TaskBody(req.created)

\* such a get was served for a task created in a store whose first seed
\* task had been deleted: the created task is at position 2 with id 3
C11_Witness ==
    /\ Served("get_task")
    /\ "created" \in DOMAIN req
    /\ req.created.id = 3
    /\ Len(tasks) = 2
    /\ resp.status = 200

\* C12: a list and a get leave the store exactly as they found it; a list
\* answers 200 with the store; a list served right after a list returns the
\* sequence the first one returned.
C12_ReadsLeaveStore ==
    /\ (Served("get_tasks") \/ Served("get_task")) => tasks = before
    /\ Served("get_tasks") =>
          /\ resp.status = 200
          /\ resp.body = TasksBody(before)
          /\ "listed" \in DOMAIN req => resp.body.tasks = req.listed

\* a second list was served right after a first one, on a store of three
\* tasks
C12_Witness ==
    /\ Served("get_tasks")
    /\ "listed" \in DOMAIN req
    /\ Len(req.listed) = 3
    /\ resp.status = 200

\* C13: every request, whatever JSON value its body parses to, ends in one
\* of the outcomes Ok (200, 201), NotFound (404) or a rejection of the
\* request (400, 415), never in an exception that escapes the handler.
C13_NoUnhandledFailure ==
    ~Idle =>
        /\ resp.status \in {200, 201, 400, 404, 415}
        /\ resp.body.kind # "exception"

\* the status the interface table gives for the requests other than PUT on
\* an existing id, for bodies that are JSON objects, do not parse or are not
\* JSON
TableStatus ==
    /\ Served("get_tasks") => resp.status = 200
    /\ (Served("get_task") \/ Served("delete_task")) =>
          resp.status = IF req.task_id \in Ids(before) THEN 200 ELSE 404
    /\ (Served("update_task") /\ req.task_id \notin Ids(before)) =>
          resp.status = 404
    /\ Served("create_task") =>
          /\ ~req.is_json => (resp.status = 415 /\ tasks = before)
          /\ ((ObjectBody \/ UnparsedBody) /\ ValidTitle) => resp.status = 201
          /\ ((ObjectBody \/ UnparsedBody) /\ ~ValidTitle) => resp.status = 400

IdSeq(ts) == [i \in 1..Len(ts) |-> ts[i].id]

\* C15: the store is in insertion order: a task created later stands behind
\* (and has a larger id than) every task that was in the store then; a list
\* returns the tasks in the order of the store; create adds at the end;
\* update keeps the order; delete keeps the order of the tasks that remain.
C15_InsertionOrder ==
    /\ \A i, j \in 1..Len(tasks) : i < j => tasks[i].id < tasks[j].id
    /\ Served("get_tasks") => resp.body.tasks = before
    /\ (Served("create_task") /\ resp.status = 201) =>
          /\ SubSeq(tasks, 1, Len(before)) = before
          /\ tasks[Len(tasks)] = resp.body.task
    /\ Served("update_task") => IdSeq(tasks) = IdSeq(before)
    /\ Served("delete_task") =>
          IdSeq(tasks) = SelectSeq(IdSeq(before), LAMBDA x : x # req.task_id)

\* a list was served on the store left by deleting the middle one of three
\* tasks
C15_Witness ==
    /\ Served("get_tasks")
    /\ IdSeq(tasks) = <<1, 3>>
    /\ resp.status = 200

\* C16: under concurrent dispatch, once a create that answered 201 and a
\* delete of another id have both completed, the created task is in the
\* store.
C16_CreatedTaskKept ==
    \A t1, t2 \in Threads :
        (/\ th[t1].op = "create_task" /\ th[t1].status = 201
         /\ th[t2].op = "delete_task" /\ th[t2].pc = "done"
         /\ th[t2].task_id # th[t1].new_task.id)
        => \E i \in 1..Len(tasks) : tasks[i] = th[t1].new_task

\* C17: under concurrent dispatch, a delete that answered 404 took no task
\* out of the store, and a delete that answered 200 took out the task with
\* the id it was given.
C17_DeleteOutcomeMatches ==
    \A t \in Threads :
        (th[t].op = "delete_task" /\ th[t].pc = "done") =>
            /\ th[t].status = 404 => th[t].removed = {}
            /\ th[t].status = 200 =>
                  \E x \in th[t].removed : x.id = th[t].task_id

====
